---- MODULE Spec2Model ----
(***************************************************************************)
(* DocSuite (src/src/DocSuite.ts): the extraction facade, the format       *)
(* extractors, the PDF page pipeline and the post-processor registry.      *)
(*                                                                         *)
(* JavaScript strings are sequences of one-character strings, so that      *)
(* toLowerCase, startsWith, path.extname and path.basename are computed.   *)
(* An optional field is None (absent) or Some(v).                          *)
(***************************************************************************)
EXTENDS Integers, Sequences, FiniteSets, TLC

VARIABLES
    postProcessors,  \* DocSuite.#postProcessors: extension -> {processor, context}
    regLog,          \* history: the setter / clear calls made so far, as called
    call,            \* the extract call: its position, locals and outcome
    pdf,             \* the extractPdf invocations: position, locals, outcome
    scratch          \* the files of the shared scratch directory (.tmp)

vars == <<postProcessors, regLog, call, pdf, scratch>>

(* ------------------------------ bounds --------------------------------- *)

\* registry operations (setters and clears) per behaviour
MaxRegOps == 2
\* sheets of a workbook / slides of a deck
MaxUnits == 2
\* pages of a PDF extracted directly (extractPdf)
MaxPages == 2
\* pages of a PDF extracted through the facade (extract)
MaxFacadePages == 1
\* registry operations during a facade call on any format
MaxFacadeRegOps == 1
\* files pdfimages writes for one page
MaxImages == 1
\* the number of pages of the longer of two PDFs extracted concurrently
LongPages == 10

(* ------------------------------ strings -------------------------------- *)

None == << >>
Some(v) == << v >>
IsSome(o) == Len(o) = 1
Get(o) == o[1]

Upper == <<"A","B","C","D","E","F","G","H","I","J","K","L","M",
           "N","O","P","Q","R","S","T","U","V","W","X","Y","Z">>
Lower == <<"a","b","c","d","e","f","g","h","i","j","k","l","m",
           "n","o","p","q","r","s","t","u","v","w","x","y","z">>

LowerOf(c) ==
    IF \E i \in DOMAIN Upper : Upper[i] = c
    THEN Lower[CHOOSE i \in DOMAIN Upper : Upper[i] = c]
    ELSE c

\* String.prototype.toLowerCase
toLowerCase(s) == [i \in 1..Len(s) |-> LowerOf(s[i])]

\* String.prototype.startsWith
startsWith(s, p) == Len(p) <= Len(s) /\ SubSeq(s, 1, Len(p)) = p

\* String.prototype.trim (the only whitespace of the sample texts is " ")
RECURSIVE trimStart(_)
trimStart(s) == IF s # << >> /\ Head(s) = " " THEN trimStart(Tail(s)) ELSE s
RECURSIVE trimEnd(_)
trimEnd(s) ==
    IF s # << >> /\ s[Len(s)] = " " THEN trimEnd(SubSeq(s, 1, Len(s) - 1)) ELSE s
trim(s) == trimEnd(trimStart(s))

\* the last position of character c in s, 0 when there is none
LastIndexOf(s, c) ==
    IF \E i \in 1..Len(s) : s[i] = c
    THEN CHOOSE i \in 1..Len(s) : s[i] = c /\ \A j \in (i+1)..Len(s) : s[j] # c
    ELSE 0

\* path.basename (POSIX; the sample paths have no trailing separator)
basename(p) == SubSeq(p, LastIndexOf(p, "/") + 1, Len(p))

\* path.extname: from the last "." of the base name; "" when there is none or
\* when it is the base name's first character
extname(p) ==
    LET b == basename(p)
        d == LastIndexOf(b, ".")
    IN  IF d <= 1 THEN << >> ELSE SubSeq(b, d, Len(b))

\* whether w occurs in s as a contiguous substring (String.prototype.includes)
Contains(s, w) ==
    \E i \in 0..(Len(s) - Len(w)) : SubSeq(s, i + 1, i + Len(w)) = w

\* DocSuite.#ext
ext(p) == toLowerCase(extname(p))

(* ------------------------------ results -------------------------------- *)

\* ExtractionResult; type "null" is the error sentinel
Result(type, fileName, page, contents, error, isFullPage) ==
    [type |-> type, fileName |-> fileName, page |-> page,
     contents |-> contents, error |-> error, isFullPage |-> isFullPage]

\* an error result that also carries an empty contents
ErrorResultWithContents(fileName, page, error) ==
    Result("null", fileName, page, Some(<< >>), Some(error), None)

\* { type: null, fileName, page, error }
ErrorResult(fileName, page, error) ==
    Result("null", fileName, page, None, Some(error), None)

\* a thrown value: an Error with a message, or any other value (message is
\* then what String(value) gives)
Thrown(isError, message) == [isError |-> isError, message |-> message]

\* e instanceof Error ? e.message : fallback
MessageOr(e, fallback) == IF e.isError THEN e.message ELSE fallback

Boom == Thrown(TRUE, <<"boom">>)
Oops == Thrown(FALSE, <<"oops">>)
Failures == {Boom, Oops}

(* ---------------------------- post-processors -------------------------- *)

\* result.contents ? `${prefix}${result.contents}` : result.contents
Tag(r, prefix) ==
    IF IsSome(r.contents) /\ Get(r.contents) # << >>
    THEN [r EXCEPT !.contents = Some(prefix \o Get(r.contents))]
    ELSE r

\* results.map(result => ({ ...result, contents: ... }))
MapTag(results, prefix) == [i \in 1..Len(results) |-> Tag(results[i], prefix)]

\* the bound context objects (DocumentProcessor instances)
Ctx1 == [prefix |-> <<"[COMPANY]">>]
Ctx2 == [prefix |-> <<"[OTHER]">>]

\* PostProcessorInput: a plain function, or { handler, context? }
FunctionInput(f) == [isFunction |-> TRUE, handler |-> f, context |-> None]
ObjectInput(f, context) == [isFunction |-> FALSE, handler |-> f, context |-> context]

\* the inputs callers register: the functions of the developer script, a
\* method with its instance as context, and a function of the caller's own
Inputs ==
    { FunctionInput("addMetadata"), FunctionInput("custom"),
      ObjectInput("processResults", Some(Ctx1)),
      ObjectInput("processResults", Some(Ctx2)) }

\* what a caller's own function can do when it is called: return a new
\* empty array, throw, remove an element of its argument and throw, or
\* change its argument, suspend and reject with a value that is no Error
Behaviours == {"returnsEmpty", "throws", "popThenThrow", "editThenReject"}

\* the unbound method: `this` is undefined where it reads this.prefix
TypeErrorPrefix == Thrown(TRUE, <<"Cannot read properties of undefined (reading 'prefix')">>)
\* throw new Error('Something went wrong in the processor')
ProcessorError == Thrown(TRUE, <<"Something went wrong in the processor">>)

\* what a processor does to its argument in place before its first
\* suspension or its return
MutateSync(f, b, results) ==
    CASE f = "custom" /\ b = "popThenThrow" ->
            IF results = << >> THEN results ELSE SubSeq(results, 1, Len(results) - 1)
      [] f = "custom" /\ b = "editThenReject" ->
            (IF results = << >> THEN results
             ELSE [results EXCEPT ![1].contents = Some(<<"edited">>)])
            \o << Result("text", <<"extra">>, 1, Some(<<"added">>), None, None) >>
      [] OTHER -> results

Returns(value) == [kind |-> "return", value |-> value, thrown |-> Boom]
Throws(e) == [kind |-> "throw", value |-> << >>, thrown |-> e]
Awaits == [kind |-> "await", value |-> << >>, thrown |-> Boom]

\* the synchronous part of a processor call on the array arr (already
\* changed by MutateSync), with `this` bound to the context or undefined
\* (None): it returns a value, throws, or returns a pending promise
RunSync(f, b, this, arr) ==
    CASE f = "addMetadata" -> Returns(MapTag(arr, <<"[PROCESSED] ">>))
      [] f = "processResults" ->
            IF IsSome(this) THEN Returns(MapTag(arr, Get(this).prefix \o <<": ">>))
            ELSE Throws(TypeErrorPrefix)
      [] f = "errorProcessor" -> Throws(ProcessorError)
      [] f = "enrichWithAPI" -> Awaits
      [] f = "custom" /\ b = "returnsEmpty" -> Returns(<< >>)
      [] f = "custom" /\ b = "editThenReject" -> Awaits
      [] OTHER -> Throws(Boom)

\* how the promise of an asynchronous processor settles
RunAsync(f, arr) ==
    IF f = "enrichWithAPI" THEN Returns(MapTag(arr, <<"[ASYNC] ">>)) ELSE Throws(Oops)

(* ------------------------------ registry ------------------------------- *)

\* Map.prototype.set / delete on the registry
MapSet(m, k, v) == (k :> v) @@ m

\* a delete that also removes the keys that begin k
MapDeleteBeginnings(m, k) == [x \in {y \in DOMAIN m : ~startsWith(k, y)} |-> m[x]]

MapDelete(m, k) == [x \in (DOMAIN m) \ {k} |-> m[x]]
EmptyMap == << >>

MapClearNothing(m) == m

\* Map.prototype.clear
MapClear(m) == EmptyMap

PrivSetPostProcessorKeepsFirst(m, extension, input) ==
    IF extension \in DOMAIN m THEN m
    ELSE MapSet(m, extension, [processor |-> input.handler, context |-> input.context])

\* DocSuite.#setPostProcessor
PrivSetPostProcessor(m, extension, input) ==
    IF input.isFunction
    THEN MapSet(m, extension, [processor |-> input.handler, context |-> None])
    ELSE MapSet(m, extension, [processor |-> input.handler, context |-> input.context])

NormalizeExtensionLowercaseOnly(extension) == toLowerCase(extension)

\* const ext = extension.startsWith('.') ? extension : `.${extension}`; ext.toLowerCase()
NormalizeExtension(extension) ==
    toLowerCase(IF startsWith(extension, <<".">>) THEN extension ELSE <<".">> \o extension)

DOCX == <<".", "d", "o", "c", "x">>
XLSX == <<".", "x", "l", "s", "x">>
XLS  == <<".", "x", "l", "s">>
PPTX == <<".", "p", "p", "t", "x">>
PDF  == <<".", "p", "d", "f">>
TXT  == <<".", "t", "x", "t">>

\* the spellings callers pass to setPostProcessor / clearPostProcessor, each
\* with the registry key the caller means by it
Spellings ==
    { [raw |-> <<"d", "o", "c", "x">>, key |-> DOCX],
      [raw |-> <<".", "D", "O", "C", "X">>, key |-> DOCX],
      [raw |-> <<".", "x", "l", "s", "x">>, key |-> XLSX],
      [raw |-> <<".", "t", "x", "t">>, key |-> TXT] }

\* a setter or clear call as the caller made it: raw is the extension
\* argument as written (None for the calls that take none)
LogEntry(op, raw, keys, input) == [op |-> op, raw |-> raw, keys |-> keys, input |-> input]

setDocxPostProcessor(input) ==
    /\ postProcessors' = PrivSetPostProcessor(postProcessors, DOCX, input)
    /\ regLog' = Append(regLog, LogEntry("set", None, {DOCX}, input))
    /\ UNCHANGED <<call, pdf, scratch>>

setXlsxPostProcessor(input) ==
    /\ postProcessors' =
          PrivSetPostProcessor(PrivSetPostProcessor(postProcessors, XLSX, input), XLS, input)
    /\ regLog' = Append(regLog, LogEntry("set", None, {XLSX, XLS}, input))
    /\ UNCHANGED <<call, pdf, scratch>>

setPptxPostProcessor(input) ==
    /\ postProcessors' = PrivSetPostProcessor(postProcessors, PPTX, input)
    /\ regLog' = Append(regLog, LogEntry("set", None, {PPTX}, input))
    /\ UNCHANGED <<call, pdf, scratch>>

setPdfPostProcessor(input) ==
    /\ postProcessors' = PrivSetPostProcessor(postProcessors, PDF, input)
    /\ regLog' = Append(regLog, LogEntry("set", None, {PDF}, input))
    /\ UNCHANGED <<call, pdf, scratch>>

setPostProcessor(spelling, input) ==
    /\ postProcessors' =
          PrivSetPostProcessor(postProcessors, NormalizeExtension(spelling.raw), input)
    /\ regLog' = Append(regLog, LogEntry("set", Some(spelling.raw), {spelling.key}, input))
    /\ UNCHANGED <<call, pdf, scratch>>

clearPostProcessor(spelling) ==
    /\ postProcessors' = MapDelete(postProcessors, NormalizeExtension(spelling.raw))
    /\ regLog' = Append(regLog, LogEntry("clear", Some(spelling.raw), {spelling.key}, FunctionInput("none")))
    /\ UNCHANGED <<call, pdf, scratch>>

clearAllPostProcessors ==
    /\ postProcessors' = MapClear(postProcessors)
    /\ regLog' = Append(regLog, LogEntry("clearAll", None, {}, FunctionInput("none")))
    /\ UNCHANGED <<call, pdf, scratch>>

(* --------------------------- format extractors ------------------------- *)

\* what the document-to-text conversion does with the file
DocxOutcomes ==
    { [ok |-> TRUE, value |-> <<" ", "w", " ">>, thrown |-> Boom],
      [ok |-> TRUE, value |-> << >>, thrown |-> Boom] }
    \cup { [ok |-> FALSE, value |-> << >>, thrown |-> e] : e \in Failures }

\* DocSuite.extractDocx, from the conversion's outcome on
extractDocx(filePath, o) ==
    IF o.ok
    THEN << Result("text", basename(filePath), 1, Some(trim(o.value)), None, None) >>
    ELSE << ErrorResult(basename(filePath), 1,
              MessageOr(o.thrown,
                  <<"An unknown error occurred while parsing the .docx file.">>)) >>

\* what the spreadsheet reader does with the file: readFile throws, or gives
\* a workbook of `sheets` sheets of which sheet `failAt` (0: none) cannot be
\* serialized
XlsxOutcomes ==
    { [ok |-> FALSE, sheets |-> 0, failAt |-> 0, thrown |-> Boom] }
    \cup { [ok |-> TRUE, sheets |-> n, failAt |-> k, thrown |-> Oops] :
             n \in 0..MaxUnits, k \in 0..MaxUnits }

\* XLSX.utils.sheet_to_csv(wb.Sheets[name]) of the sheet at 0-based index
sheet_to_csv(index) == <<"csv", ToString(index)>>

\* extractXlsx with each sheet converted in a try block of its own
extractXlsxPartial(filePath, o) ==
    IF o.ok
    THEN [index \in 1..o.sheets |->
            IF index = o.failAt
            THEN ErrorResult(basename(filePath), index,
                   MessageOr(o.thrown,
                       <<"An unknown error occurred while parsing the .xlsx file.">>))
            ELSE Result("csv", basename(filePath), (index - 1) + 1,
                        Some(sheet_to_csv(index - 1)), None, None)]
    ELSE << ErrorResult(basename(filePath), 1,
              MessageOr(o.thrown,
                  <<"An unknown error occurred while parsing the .xlsx file.">>)) >>

extractXlsxZeroBased(filePath, o) ==
    IF o.ok /\ ~(o.failAt \in 1..o.sheets)
    THEN [index \in 1..o.sheets |->
            Result("csv", basename(filePath), index - 1,
                   Some(sheet_to_csv(index - 1)), None, None)]
    ELSE << ErrorResult(basename(filePath), 1,
              MessageOr(o.thrown,
                  <<"An unknown error occurred while parsing the .xlsx file.">>)) >>

\* DocSuite.extractXlsx (synchronous: XLSX.readFile is not awaited)
extractXlsx(filePath, o) ==
    IF o.ok /\ ~(o.failAt \in 1..o.sheets)
    THEN [index \in 1..o.sheets |->
            Result("csv", basename(filePath), (index - 1) + 1,
                   Some(sheet_to_csv(index - 1)), None, None)]
    ELSE << ErrorResult(basename(filePath), 1,
              MessageOr(o.thrown,
                  <<"An unknown error occurred while parsing the .xlsx file.">>)) >>

\* Array.prototype.join
RECURSIVE join(_, _)
join(parts, sep) ==
    IF parts = << >> THEN << >>
    ELSE IF Len(parts) = 1 THEN Head(parts)
    ELSE Head(parts) \o sep \o join(Tail(parts), sep)

\* the text fragments of the slide at 0-based index
SlideText(index) == [j \in 1..(index + 1) |-> <<"f", ToString(j)>>]

\* what the slide-deck parser does: its constructor throws, extractText
\* rejects, or it resolves with `slides` slides of which slide `failAt`
\* (0: none) has no text array to join
PptxOutcomes ==
    { [ctor |-> FALSE, ok |-> FALSE, slides |-> 0, failAt |-> 0, thrown |-> Boom],
      [ctor |-> TRUE, ok |-> FALSE, slides |-> 0, failAt |-> 0, thrown |-> Oops] }
    \cup { [ctor |-> TRUE, ok |-> TRUE, slides |-> n, failAt |-> k, thrown |-> Boom] :
             n \in 0..MaxUnits, k \in 0..MaxUnits }

\* DocSuite.extractPptx, from the parser's outcome on
extractPptx(filePath, o) ==
    IF o.ctor /\ o.ok /\ ~(o.failAt \in 1..o.slides)
    THEN [index \in 1..o.slides |->
            Result("text", basename(filePath), (index - 1) + 1,
                   Some(join(SlideText(index - 1), <<"\n">>)), None, None)]
    ELSE << ErrorResult(basename(filePath), 1,
              MessageOr(o.thrown,
                  <<"An unknown error occurred while parsing the .pptx file.">>)) >>

(* ------------------------------ extractPdf ----------------------------- *)

\* the extractPdf invocations that can be in flight
Invs == {1, 2}

\* the values randomBytes(8).toString('hex') can give
Hexes == {"00a1", "00b2"}

\* the decimal digits of n, as `${n}` writes them
RECURSIVE Digits(_)
Digits(n) == IF n < 10 THEN <<ToString(n)>> ELSE Digits(n \div 10) \o <<ToString(n % 10)>>

JPG == <<".", "j", "p", "g">>
PNG == <<".", "p", "n", "g">>
JP2 == <<".", "j", "p", "2">>

\* path.basename of outputPrefix: `cairo-output-${hex}-p${pageNum}`
OutputPrefix(hex, pageNum) == <<"cairo-output-", hex, "-p">> \o Digits(pageNum)

\* path.basename of imagePrefix: `pdf-images-${hex}-p${pageNum}`
ImagePrefix(hex, pageNum) == <<"pdf-images-", hex, "-p">> \o Digits(pageNum)

\* the switch on imageFormat: the kind of file the image tool is asked for
ImageOptionExt(imageFormat) ==
    CASE imageFormat = "native" -> JP2
      [] imageFormat = "png" -> PNG
      [] OTHER -> JPG

\* the name of the k-th file (0-based) the image tool writes for a prefix
ImageFileName(prefix, k, e) == prefix \o <<"-", "0", "0", ToString(k)>> \o e

\* the switch on imageExtension
MimeOf(imageExtension) ==
    CASE imageExtension = <<"p", "n", "g">> -> "image/png"
      [] imageExtension \in {<<"j", "p", "g">>, <<"j", "p", "e", "g">>} -> "image/jpeg"
      [] imageExtension \in {<<"t", "i", "f">>, <<"t", "i", "f", "f">>} -> "image/tiff"
      [] imageExtension = <<"j", "p", "2">> -> "image/jp2"
      [] OTHER -> "image/jpeg"

\* Buffer.prototype.toString('base64')
Base64(bytes) == <<"base64(">> \o bytes \o <<")">>

\* sharp(buffer).jpeg({...}).toColorspace('srgb').toBuffer()
ReEncode(bytes) == <<"srgb-jpeg">> \o bytes

\* the contents a tool can leave in a file: no bytes, or some
FileBytes == { << >>, <<"bytes">> }

File(name, bytes) == [name |-> name, bytes |-> bytes]
WriteFile(dir, name, bytes) == {f \in dir : f.name # name} \cup {File(name, bytes)}
RemoveFile(dir, name) == {f \in dir : f.name # name}
Exists(dir, name) == \E f \in dir : f.name = name
BytesOf(dir, name) == (CHOOSE f \in dir : f.name = name).bytes

\* the orders in which fs.readdir can list the names of a set
Listings(names) ==
    { l \in [1..Cardinality(names) -> names] : \A n \in names : \E i \in DOMAIN l : l[i] = n }

FilterNothing(files, prefix) == files

\* files.filter((f) => f.startsWith(path.basename(imagePrefix)))
RECURSIVE FilterPrefix(_, _)
FilterPrefix(files, prefix) ==
    IF files = << >> THEN << >>
    ELSE IF startsWith(Head(files), prefix)
         THEN <<Head(files)>> \o FilterPrefix(Tail(files), prefix)
         ELSE FilterPrefix(Tail(files), prefix)

\* the metadata report: not a string, a string without a Pages line, or a
\* string with the line "Pages:   <digits>"
NoReport == [isString |-> FALSE, pages |-> None]
NoPagesLine == [isString |-> TRUE, pages |-> None]
PagesLine(n) == [isString |-> TRUE, pages |-> Some(Digits(n))]

\* parseInt of a string of decimal digits
RECURSIVE parseInt(_)
parseInt(d) ==
    IF d = << >> THEN 0
    ELSE 10 * parseInt(SubSeq(d, 1, Len(d) - 1))
         + (CHOOSE v \in 0..9 : ToString(v) = d[Len(d)])

PageCountOneByDefault(info) ==
    IF info.isString /\ IsSome(info.pages) THEN parseInt(Get(info.pages)) ELSE 1

\* info.match(/Pages:\s+(\d+)/) and parseInt of its group, 0 without a match
PageCount(info) ==
    IF info.isString /\ IsSome(info.pages) THEN parseInt(Get(info.pages)) ELSE 0

PdfIdle ==
    [pc |-> "idle", filePath |-> << >>, fullPageImage |-> FALSE,
     imageFormat |-> "native", progressCallback |-> FALSE,
     pageCount |-> 0, pageNum |-> 0, results |-> << >>, pageResults |-> << >>,
     prefix |-> << >>, imageFiles |-> << >>, buffer |-> << >>,
     outcome |-> "pending", returned |-> << >>, progress |-> << >>,
     toolkit |-> TRUE, events |-> << >>, report |-> None,
     drew |-> {}, wrote |-> {}, doneAt |-> 0]

\* what an invocation has done so far, in order, as a history beside its
\* locals: the stage steps of each page with the scratch file they concern;
\* drew: the values randomBytes gave it; wrote: the names of the files its
\* tool calls wrote; doneAt: the number of registry calls made when it
\* returned
Event(kind, page, file) == [kind |-> kind, page |-> page, file |-> file]
Did(p, kind, file) == [p EXCEPT !.events = Append(@, Event(kind, p.pageNum, file))]

\* the PdfExtractionOptions and progress callback callers pass (undefined
\* fields take the defaults { imageFormat: 'native', fullPageImage: false })
PdfOptions ==
    { [imageFormat |-> "native", fullPageImage |-> FALSE, progressCallback |-> FALSE],
      [imageFormat |-> "png", fullPageImage |-> TRUE, progressCallback |-> TRUE] }

\* return r from extractPdf
PdfReturn(p, r) ==
    [p EXCEPT !.pc = "done", !.outcome = "resolved", !.returned = r,
              !.doneAt = Len(regLog)]

\* the top-level catch of extractPdf
PdfOuterCatch(p, e) ==
    PdfReturn(Did(p, "abort", << >>), << ErrorResult(basename(p.filePath), 1,
                      MessageOr(e, <<"An unknown error occurred while parsing the .pdf file.">>)) >>)

\* the head of the page loop body, up to its first suspension: the progress
\* callback, pageResults = [], and the first awaited call of the page
PdfBeginPage(p) ==
    LET q == [Did(p, "page", << >>) EXCEPT
                       !.pageResults = << >>,
                       !.progress = IF p.progressCallback
                                    THEN Append(@, [currentPage |-> p.pageNum,
                                                    totalPages |-> p.pageCount])
                                    ELSE @]
    IN  IF q.fullPageImage THEN [q EXCEPT !.pc = "fpMkdir"] ELSE [q EXCEPT !.pc = "text"]

\* pageNum++ and the loop test; return results after the last page
PdfNextPage(p) ==
    IF p.pageNum + 1 <= p.pageCount
    THEN PdfBeginPage([p EXCEPT !.pageNum = p.pageNum + 1])
    ELSE PdfReturn(p, p.results)

\* 3. Handle pages with no content
PdfEmptyPageNoFallback(p) == p.pageResults

PdfEmptyPage(p) ==
    IF Len(p.pageResults) = 0
    THEN << Result("text", basename(p.filePath), p.pageNum, Some(<< >>), None, None) >>
    ELSE p.pageResults

PdfFinishPageUnshift(p) ==
    PdfNextPage([Did(p, "finish", << >>) EXCEPT !.results = PdfEmptyPage(p) \o p.results])

\* the end of the page's try block: the empty-page fallback, results.push(...pageResults)
PdfFinishPage(p) ==
    PdfNextPage([Did(p, "finish", << >>) EXCEPT !.results = p.results \o PdfEmptyPage(p)])

PdfPageCatchKeepsPageResults(p, e) ==
    PdfNextPage([Did(p, "pageCatch", << >>) EXCEPT !.results =
        Append(p.results \o p.pageResults,
               ErrorResult(basename(p.filePath), p.pageNum,
                   MessageOr(e, <<"Error processing page ">> \o Digits(p.pageNum))))])

\* catch (pageError)
PdfPageCatch(p, e) ==
    PdfNextPage([Did(p, "pageCatch", << >>) EXCEPT !.results =
        Append(p.results,
               ErrorResult(basename(p.filePath), p.pageNum,
                   MessageOr(e, <<"Error processing page ">> \o Digits(p.pageNum))))])

\* the catch of the full-page stage ending the page instead
PdfCairoCatchEndsPage(p) ==
    PdfNextPage([Did(p, "cairoCatch", << >>) EXCEPT !.results =
        Append(p.results,
               ErrorResult(basename(p.filePath), p.pageNum,
                   <<"pdfToCairo failed for page ">> \o Digits(p.pageNum)
                   \o <<". The PDF may be incompatible or the environment may have an issue with the Poppler binary.">>))])

\* catch (cairoError): one error result for the page, then on to the text stage
PdfCairoCatch(p) ==
    [Did(p, "cairoCatch", << >>) EXCEPT
              !.pc = "text",
              !.pageResults =
                  Append(p.pageResults,
                         ErrorResult(basename(p.filePath), p.pageNum,
                             <<"pdfToCairo failed for page ">> \o Digits(p.pageNum)
                             \o <<". The PDF may be incompatible or the environment may have an issue with the Poppler binary.">>))]

\* the for loop over imageFiles, up to its next suspension
PdfNextImage(p) ==
    IF p.imageFiles = << >> THEN PdfFinishPage(p) ELSE [p EXCEPT !.pc = "imgRead"]

\* the synchronous head of extractPdf: new Poppler(), which throws when it
\* finds no toolkit on the host (toolkit = FALSE), and the pdfInfo call
PdfStart(filePath, options, toolkit) ==
    IF toolkit
    THEN [PdfIdle EXCEPT !.pc = "info", !.filePath = filePath,
                         !.fullPageImage = options.fullPageImage,
                         !.imageFormat = options.imageFormat,
                         !.progressCallback = options.progressCallback]
    ELSE [PdfIdle EXCEPT !.pc = "done", !.filePath = filePath, !.outcome = "rejected",
                         !.toolkit = FALSE]

\* a direct call of extractPdf(filePath, options, progressCallback)
ExtractPdfCall(i, filePath, options, toolkit) ==
    /\ pdf[i].pc = "idle"
    /\ pdf' = [pdf EXCEPT ![i] = PdfStart(filePath, options, toolkit)]
    /\ UNCHANGED <<postProcessors, regLog, call, scratch>>

\* await poppler.pdfInfo(filePath) settles: the page count, the early
\* return, and the head of the first page
PdfInfoSettle(i, ok, info) ==
    /\ pdf[i].pc = "info"
    /\ pdf' = [pdf EXCEPT ![i] =
          IF ~ok THEN PdfOuterCatch(@, Boom)
          ELSE IF PageCount(info) = 0
          THEN PdfReturn([@ EXCEPT !.report = Some(info)], << ErrorResult(basename(pdf[i].filePath), 1,
                                   <<"Unable to determine PDF page count">>) >>)
          ELSE PdfBeginPage([@ EXCEPT !.report = Some(info),
                                      !.pageCount = PageCount(info), !.pageNum = 1,
                                      !.results = << >>])]
    /\ UNCHANGED <<postProcessors, regLog, call, scratch>>

\* await fs.mkdir(localTmpRoot) of the full-page stage settles; outside the
\* page's try blocks, so a failure reaches the top-level catch
PdfFullPageMkdirSettle(i, ok, hex) ==
    /\ pdf[i].pc = "fpMkdir"
    /\ pdf' = [pdf EXCEPT ![i] =
          IF ok THEN [@ EXCEPT !.pc = "cairo", !.prefix = OutputPrefix(hex, pdf[i].pageNum),
                               !.drew = @ \cup {hex}]
          ELSE PdfOuterCatch(@, Boom)]
    /\ UNCHANGED <<postProcessors, regLog, call, scratch>>

\* await poppler.pdfToCairo(...) settles: it throws, or resolves having
\* written the .jpg (wrote) or not
PdfToCairoSettle(i, ok, wrote, bytes) ==
    /\ pdf[i].pc = "cairo"
    /\ pdf' = [pdf EXCEPT ![i] =
          LET q == [@ EXCEPT !.wrote = IF wrote THEN @ \cup {pdf[i].prefix \o JPG} ELSE @]
          IN  IF ok THEN [q EXCEPT !.pc = "fpAccess"] ELSE PdfCairoCatch(q)]
    /\ scratch' = IF wrote THEN WriteFile(scratch, pdf[i].prefix \o JPG, bytes) ELSE scratch
    /\ UNCHANGED <<postProcessors, regLog, call>>

\* await fs.access(jpegPath) settles
PdfAccessSettle(i) ==
    /\ pdf[i].pc = "fpAccess"
    /\ pdf' = [pdf EXCEPT ![i] =
          IF Exists(scratch, pdf[i].prefix \o JPG) THEN [@ EXCEPT !.pc = "fpRead"]
          ELSE PdfCairoCatch(@)]
    /\ UNCHANGED <<postProcessors, regLog, call, scratch>>

\* await fs.readFile(jpegPath) settles
PdfFullPageReadSettle(i, ok) ==
    /\ pdf[i].pc = "fpRead"
    /\ pdf' = [pdf EXCEPT ![i] =
          IF ok /\ Exists(scratch, pdf[i].prefix \o JPG)
          THEN [Did(@, "read", pdf[i].prefix \o JPG) EXCEPT
                   !.pc = "fpRm", !.buffer = BytesOf(scratch, pdf[i].prefix \o JPG)]
          ELSE PdfCairoCatch(@)]
    /\ UNCHANGED <<postProcessors, regLog, call, scratch>>

PdfFullPageRmSettleAfterLengthTest(i, ok) ==
    /\ pdf[i].pc = "fpRm"
    /\ scratch' = IF ok /\ Len(pdf[i].buffer) > 0
                  THEN RemoveFile(scratch, pdf[i].prefix \o JPG) ELSE scratch
    /\ pdf' = [pdf EXCEPT ![i] =
          IF ~ok THEN PdfCairoCatch(@)
          ELSE IF Len(pdf[i].buffer) > 0
          THEN [Did(@, "rm", pdf[i].prefix \o JPG) EXCEPT !.pc = "sharp"]
          ELSE [Did(Did(@, "rm", pdf[i].prefix \o JPG), "empty", pdf[i].prefix \o JPG)
                   EXCEPT !.pc = "text"]]
    /\ UNCHANGED <<postProcessors, regLog, call>>

\* await fs.rm(jpegPath, { force: true }) settles (force hides only a
\* missing file, any other failure rejects), then the length test
PdfFullPageRmSettle(i, ok) ==
    /\ pdf[i].pc = "fpRm"
    /\ scratch' = IF ok THEN RemoveFile(scratch, pdf[i].prefix \o JPG) ELSE scratch
    /\ pdf' = [pdf EXCEPT ![i] =
          IF ~ok THEN PdfCairoCatch(@)
          ELSE IF Len(pdf[i].buffer) > 0
          THEN [Did(@, "rm", pdf[i].prefix \o JPG) EXCEPT !.pc = "sharp"]
          ELSE [Did(Did(@, "rm", pdf[i].prefix \o JPG), "empty", pdf[i].prefix \o JPG)
                   EXCEPT !.pc = "text"]]
    /\ UNCHANGED <<postProcessors, regLog, call>>

\* await sharp(imageBuffer)...toBuffer() settles
PdfSharpSettle(i, ok) ==
    /\ pdf[i].pc = "sharp"
    /\ pdf' = [pdf EXCEPT ![i] =
          IF ok
          THEN [Did(@, "render", pdf[i].prefix \o JPG) EXCEPT
                         !.pc = "text",
                         !.pageResults =
                             Append(@, Result("image", basename(pdf[i].filePath), pdf[i].pageNum,
                                 Some(<<"data:image/jpeg;base64,">> \o Base64(ReEncode(pdf[i].buffer))),
                                 None, Some(TRUE)))]
          ELSE PdfCairoCatch(Did(@, "renderFailed", pdf[i].prefix \o JPG))]
    /\ UNCHANGED <<postProcessors, regLog, call, scratch>>

\* the raw text the text tool can give for a page
PageTexts == { <<" ">>, <<" ", "t">> }

\* await poppler.pdfToText(...) settles
PdfToTextSettle(i, ok, text, e) ==
    /\ pdf[i].pc = "text"
    /\ pdf' = [pdf EXCEPT ![i] =
          IF ok
          THEN [Did(@, IF Len(trim(text)) > 0 THEN "text" ELSE "noText", << >>) EXCEPT
                         !.pc = "imgMkdir",
                         !.pageResults =
                             IF Len(trim(text)) > 0
                             THEN Append(@, Result("text", basename(pdf[i].filePath),
                                                   pdf[i].pageNum, Some(trim(text)), None, None))
                             ELSE @]
          ELSE PdfPageCatch(@, e)]
    /\ UNCHANGED <<postProcessors, regLog, call, scratch>>

\* await fs.mkdir(localTmpRoot) of the image stage settles
PdfImagesMkdirSettle(i, ok, hex) ==
    /\ pdf[i].pc = "imgMkdir"
    /\ pdf' = [pdf EXCEPT ![i] =
          IF ok THEN [@ EXCEPT !.pc = "images", !.prefix = ImagePrefix(hex, pdf[i].pageNum),
                               !.drew = @ \cup {hex}]
          ELSE PdfPageCatch(@, Boom)]
    /\ UNCHANGED <<postProcessors, regLog, call, scratch>>

\* await poppler.pdfImages(...) settles, having written n files
PdfImagesSettle(i, ok, n, bytes) ==
    /\ pdf[i].pc = "images"
    /\ scratch' =
          {f \in scratch :
              \A k \in 0..(n - 1) :
                  f.name # ImageFileName(pdf[i].prefix, k, ImageOptionExt(pdf[i].imageFormat))}
          \cup { File(ImageFileName(pdf[i].prefix, k, ImageOptionExt(pdf[i].imageFormat)), bytes[k + 1])
                   : k \in 0..(n - 1) }
    /\ pdf' = [pdf EXCEPT ![i] =
          LET q == [@ EXCEPT !.wrote =
                       @ \cup { ImageFileName(pdf[i].prefix, k, ImageOptionExt(pdf[i].imageFormat))
                                  : k \in 0..(n - 1) }]
          IN  IF ok THEN [q EXCEPT !.pc = "readdir"] ELSE PdfPageCatch(q, Boom)]
    /\ UNCHANGED <<postProcessors, regLog, call>>

\* await fs.readdir(localTmpRoot) settles; the filter by prefix and the
\* head of the loop over imageFiles
PdfReaddirSettle(i, ok, files) ==
    /\ pdf[i].pc = "readdir"
    /\ pdf' = [pdf EXCEPT ![i] =
          IF ok
          THEN PdfNextImage([@ EXCEPT !.imageFiles = FilterPrefix(files, pdf[i].prefix)])
          ELSE PdfPageCatch(@, Boom)]
    /\ UNCHANGED <<postProcessors, regLog, call, scratch>>

\* await fs.readFile(imagePath) settles
PdfImageReadSettle(i, ok) ==
    /\ pdf[i].pc = "imgRead"
    /\ pdf' = [pdf EXCEPT ![i] =
          IF ok /\ Exists(scratch, Head(pdf[i].imageFiles))
          THEN [Did(@, "read", Head(pdf[i].imageFiles)) EXCEPT
                   !.pc = "imgRm", !.buffer = BytesOf(scratch, Head(pdf[i].imageFiles))]
          ELSE PdfPageCatch(@, Boom)]
    /\ UNCHANGED <<postProcessors, regLog, call, scratch>>

PdfImageResultKeepsEmpty(p) ==
    Append(p.pageResults,
           Result("image", basename(p.filePath), p.pageNum,
                  Some(<<"data:", MimeOf(toLowerCase(Tail(extname(Head(p.imageFiles))))),
                         ";base64,">> \o Base64(p.buffer)),
                  None, None))

\* the loop body after the read: the length test, the mime type by
\* extension, the push
PdfImageResult(p) ==
    IF Len(p.buffer) = 0 THEN p.pageResults
    ELSE Append(p.pageResults,
                Result("image", basename(p.filePath), p.pageNum,
                       Some(<<"data:", MimeOf(toLowerCase(Tail(extname(Head(p.imageFiles))))),
                              ";base64,">> \o Base64(p.buffer)),
                       None, None))

\* await fs.rm(imagePath, { force: true }) settles, then the rest of the
\* loop body and the next iteration
PdfImageRmSettle(i, ok) ==
    /\ pdf[i].pc = "imgRm"
    /\ scratch' = IF ok THEN RemoveFile(scratch, Head(pdf[i].imageFiles)) ELSE scratch
    /\ pdf' = [pdf EXCEPT ![i] =
          IF ~ok THEN PdfPageCatch(@, Boom)
          ELSE PdfNextImage(
                  [Did(Did(@, "rm", Head(pdf[i].imageFiles)),
                       IF Len(pdf[i].buffer) = 0 THEN "empty" ELSE "image",
                       Head(pdf[i].imageFiles))
                     EXCEPT !.pageResults = PdfImageResult(pdf[i]),
                            !.imageFiles = Tail(@)])]
    /\ UNCHANGED <<postProcessors, regLog, call>>

\* the steps of invocation i, with what the environment can do at each
PdfStep(i, maxPages, hexes) ==
    \/ \E n \in 0..maxPages : PdfInfoSettle(i, TRUE, PagesLine(n))
    \/ \E info \in {NoReport, NoPagesLine} : PdfInfoSettle(i, TRUE, info)
    \/ PdfInfoSettle(i, FALSE, NoReport)
    \/ \E ok \in BOOLEAN, hex \in hexes : PdfFullPageMkdirSettle(i, ok, hex)
    \/ \E ok \in BOOLEAN, bytes \in FileBytes : PdfToCairoSettle(i, ok, TRUE, bytes)
    \/ \E ok \in BOOLEAN : PdfToCairoSettle(i, ok, FALSE, << >>)
    \/ PdfAccessSettle(i)
    \/ \E ok \in BOOLEAN : PdfFullPageReadSettle(i, ok)
    \/ \E ok \in BOOLEAN : PdfFullPageRmSettle(i, ok)
    \/ \E ok \in BOOLEAN : PdfSharpSettle(i, ok)
    \/ \E text \in PageTexts : PdfToTextSettle(i, TRUE, text, Boom)
    \/ \E e \in Failures : PdfToTextSettle(i, FALSE, << >>, e)
    \/ \E ok \in BOOLEAN, hex \in hexes : PdfImagesMkdirSettle(i, ok, hex)
    \/ \E ok \in BOOLEAN, n \in 0..MaxImages :
          \E bytes \in [1..n -> FileBytes] : PdfImagesSettle(i, ok, n, bytes)
    \/ \E files \in Listings({f.name : f \in scratch}) : PdfReaddirSettle(i, TRUE, files)
    \/ PdfReaddirSettle(i, FALSE, << >>)
    \/ \E ok \in BOOLEAN : PdfImageReadSettle(i, ok)
    \/ \E ok \in BOOLEAN : PdfImageRmSettle(i, ok)

\* the paths callers pass
DocxPath == <<"a", ".", "d", "o", "c", "x">>
XlsxPath == <<"d", "/", "b", ".", "X", "L", "S", "X">>
XlsPath  == <<"c", ".", "x", "l", "s">>
PptxPath == <<"d", ".", "p", "p", "t", "x">>
PdfPath  == <<"d", "/", "e", ".", "P", "d", "f">>
TxtPath  == <<"f", ".", "t", "x", "t">>
NoExtPath == <<"d", ".", "d", "/", "n", "o", "e", "x", "t">>

InitPdf == [i \in Invs |-> PdfIdle]

InitCommon ==
    /\ postProcessors = EmptyMap
    /\ regLog = << >>
    /\ pdf = InitPdf
    /\ scratch = {}

(* ------------------------------- extract ------------------------------- *)

CallIdle ==
    [pc |-> "idle", filePath |-> << >>, extension |-> None, base |-> << >>,
     means |-> << >>, ext |-> << >>, extractor |-> "none", units |-> None,
     failAt |-> 0,
     results |-> << >>, extracted |-> << >>, extractedAt |-> 0,
     looked |-> FALSE, lookupAt |-> 0, config |-> None, procEnd |-> "none",
     thrown |-> Boom, outcome |-> "pending", returned |-> << >>]

\* a call as the caller writes it: the path, options.extension, and what the
\* caller reads in them: the file's base name and the format meant
Sample(filePath, extension, base, means) ==
    [filePath |-> filePath, extension |-> extension, base |-> base, means |-> means]

CallSamples ==
    { Sample(DocxPath, None, <<"a", ".", "d", "o", "c", "x">>, DOCX),
      Sample(XlsxPath, None, <<"b", ".", "X", "L", "S", "X">>, XLSX),
      Sample(XlsPath, None, <<"c", ".", "x", "l", "s">>, XLS),
      Sample(PptxPath, None, <<"d", ".", "p", "p", "t", "x">>, PPTX),
      Sample(PdfPath, None, <<"e", ".", "P", "d", "f">>, PDF),
      Sample(TxtPath, None, <<"f", ".", "t", "x", "t">>, TXT),
      Sample(NoExtPath, None, <<"n", "o", "e", "x", "t">>, << >>),
      Sample(DocxPath, Some(<< >>), <<"a", ".", "d", "o", "c", "x">>, DOCX),
      Sample(TxtPath, Some(<<"p", "d", "f">>), <<"f", ".", "t", "x", "t">>, PDF),
      Sample(TxtPath, Some(<<".", "P", "D", "F">>), <<"f", ".", "t", "x", "t">>, PDF),
      Sample(PdfPath, Some(<<".", "T", "x", "t">>), <<"e", ".", "P", "d", "f">>, TXT) }

\* units of a call: the number of sheets or slides the parsing library found
\* in the workbook or deck, once it has parsed it; failAt: the sheet or
\* slide (0: none) that cannot be converted; extractedAt and lookupAt: the
\* number of registry calls made when the extractor returned and when the
\* registry was looked up

\* the samples of the registry specification: one per format
RegistrySamples ==
    { s \in CallSamples :
        s.extension = None /\ s.filePath \in {DocxPath, XlsPath, PptxPath, PdfPath, TxtPath} }

\* const ext = options?.extension ? options.extension.toLowerCase() : DocSuite.#ext(filePath)
ResolveExt(filePath, extension) ==
    IF IsSome(extension) /\ Get(extension) # << >>
    THEN toLowerCase(Get(extension))
    ELSE ext(filePath)

UnsupportedResultWithPath(filePath, e) ==
    ErrorResult(filePath, 1,
                <<"DocSuite: unsupported extension \"">> \o e \o <<"\"">>)

\* the default branch of the switch
UnsupportedResult(filePath, e) ==
    ErrorResult(basename(filePath), 1,
                <<"DocSuite: unsupported extension \"">> \o e \o <<"\"">>)

\* extract returns r
Resolve(c, r) == [c EXCEPT !.pc = "done", !.outcome = "resolved", !.returned = r]

\* the catch of #applyPostProcessor: the error on the first element of the
\* array that was passed to the processor, and that array returned
PostProcessorCatch(c, e) ==
    Resolve([c EXCEPT !.procEnd = "failed", !.thrown = e],
            IF Len(c.results) > 0
            THEN [c.results EXCEPT ![1].error = Some(<<"Post-processor error: ">> \o e.message)]
            ELSE c.results)

\* #applyPostProcessor returning its argument without a lookup
applyPostProcessorWithoutLookup(c, b) ==
    Resolve([c EXCEPT !.looked = TRUE, !.lookupAt = Len(regLog)], c.results)

\* DocSuite.#applyPostProcessor(ext, results) up to its first suspension:
\* the lookup, the call of the processor (with its context when it has
\* one; b is what a caller's own function does), and what follows a return
\* or a throw
applyPostProcessor(c, b) ==
    LET has == c.ext \in DOMAIN postProcessors
        config == postProcessors[c.ext]
        arr == MutateSync(config.processor, b, c.results)
        r == RunSync(config.processor, b, config.context, arr)
        c1 == [c EXCEPT !.looked = TRUE, !.lookupAt = Len(regLog),
                        !.config = IF has THEN Some(config) ELSE None]
    IN  IF ~has THEN Resolve(c1, c.results)
        ELSE CASE r.kind = "return" ->
                    Resolve([c1 EXCEPT !.results = arr, !.procEnd = "returned"], r.value)
               [] r.kind = "throw" -> PostProcessorCatch([c1 EXCEPT !.results = arr], r.thrown)
               [] OTHER -> [c1 EXCEPT !.results = arr, !.pc = "processing"]

\* the head of extract common to every branch
Begin(s) == [CallIdle EXCEPT !.filePath = s.filePath, !.extension = s.extension,
                             !.base = s.base, !.means = s.means,
                             !.ext = ResolveExt(s.filePath, s.extension)]

\* case '.docx': up to the await of the conversion inside extractDocx
ExtractDocx(s) ==
    /\ call.pc = "idle"
    /\ ResolveExt(s.filePath, s.extension) = DOCX
    /\ call' = [Begin(s) EXCEPT !.pc = "docx", !.extractor = "docx"]
    /\ UNCHANGED <<postProcessors, regLog, pdf, scratch>>

\* the conversion settles and extractDocx returns
MammothSettle(o) ==
    /\ call.pc = "docx"
    /\ call' = [call EXCEPT !.pc = "resume",
                            !.results = extractDocx(call.filePath, o),
                            !.extracted = extractDocx(call.filePath, o),
                            !.extractedAt = Len(regLog)]
    /\ UNCHANGED <<postProcessors, regLog, pdf, scratch>>

\* case '.xlsx', '.xls': extractXlsx runs to its return without suspending
ExtractXlsx(s, o) ==
    /\ call.pc = "idle"
    /\ ResolveExt(s.filePath, s.extension) \in {XLSX, XLS}
    /\ call' = [Begin(s) EXCEPT !.pc = "resume", !.extractor = "xlsx",
                                !.units = IF o.ok THEN Some(o.sheets) ELSE None,
                                !.failAt = o.failAt,
                                !.results = extractXlsx(s.filePath, o),
                                !.extracted = extractXlsx(s.filePath, o),
                                !.extractedAt = Len(regLog)]
    /\ UNCHANGED <<postProcessors, regLog, pdf, scratch>>

\* case '.pptx': new PptxParser throws (extractPptx returns at once), or
\* extractPptx suspends on extractText
ExtractPptx(s, o) ==
    /\ call.pc = "idle"
    /\ ResolveExt(s.filePath, s.extension) = PPTX
    /\ call' = IF o.ctor
               THEN [Begin(s) EXCEPT !.pc = "pptx", !.extractor = "pptx"]
               ELSE [Begin(s) EXCEPT !.pc = "resume", !.extractor = "pptx",
                                     !.results = extractPptx(s.filePath, o),
                                     !.extracted = extractPptx(s.filePath, o),
                                     !.extractedAt = Len(regLog)]
    /\ UNCHANGED <<postProcessors, regLog, pdf, scratch>>

\* extractText settles and extractPptx returns
PptxSettle(o) ==
    /\ call.pc = "pptx"
    /\ o.ctor
    /\ call' = [call EXCEPT !.pc = "resume",
                            !.units = IF o.ok THEN Some(o.slides) ELSE None,
                            !.failAt = o.failAt,
                            !.results = extractPptx(call.filePath, o),
                            !.extracted = extractPptx(call.filePath, o),
                            !.extractedAt = Len(regLog)]
    /\ UNCHANGED <<postProcessors, regLog, pdf, scratch>>

\* case '.pdf': extractPdf (invocation 1) runs up to its first suspension
ExtractPdf(s, options, toolkit) ==
    /\ call.pc = "idle"
    /\ pdf[1].pc = "idle"
    /\ ResolveExt(s.filePath, s.extension) = PDF
    /\ call' = [Begin(s) EXCEPT !.pc = "pdf", !.extractor = "pdf"]
    /\ pdf' = [pdf EXCEPT ![1] = PdfStart(s.filePath, options, toolkit)]
    /\ UNCHANGED <<postProcessors, regLog, scratch>>

\* default: the synthetic result, then #applyPostProcessor in the same turn
ExtractUnsupported(s, b) ==
    /\ call.pc = "idle"
    /\ ResolveExt(s.filePath, s.extension) \notin {DOCX, XLSX, XLS, PPTX, PDF}
    /\ call' = applyPostProcessor(
                  [Begin(s) EXCEPT !.results = << UnsupportedResult(s.filePath, Begin(s).ext) >>,
                                   !.extracted = << UnsupportedResult(s.filePath, Begin(s).ext) >>,
                                   !.extractedAt = Len(regLog)],
                  b)
    /\ UNCHANGED <<postProcessors, regLog, pdf, scratch>>

\* the await of the extractor in extract resumes: a rejection propagates,
\* a value goes to #applyPostProcessor
ExtractResume(b) ==
    /\ \/ call.pc = "resume"
       \/ call.pc = "pdf" /\ pdf[1].pc = "done"
    /\ call' =
          IF call.pc = "pdf"
          THEN IF pdf[1].outcome = "rejected"
               THEN [call EXCEPT !.pc = "done", !.outcome = "rejected"]
               ELSE applyPostProcessor([call EXCEPT !.results = pdf[1].returned,
                                                    !.extracted = pdf[1].returned,
                                                    !.extractedAt = pdf[1].doneAt], b)
          ELSE applyPostProcessor(call, b)
    /\ UNCHANGED <<postProcessors, regLog, pdf, scratch>>

\* the promise of an asynchronous processor settles
ProcessorSettle ==
    /\ call.pc = "processing"
    /\ LET r == RunAsync(Get(call.config).processor, call.results)
       IN  call' = IF r.kind = "return"
                   THEN Resolve([call EXCEPT !.procEnd = "returned"], r.value)
                   ELSE PostProcessorCatch(call, r.thrown)
    /\ UNCHANGED <<postProcessors, regLog, pdf, scratch>>

\* testFilePath of the developer script: a .pdf under the docs directory
ScriptPath == <<"d", "o", "c", "s", "/", "H", ".", "p", "d", "f">>
ScriptSample == Sample(ScriptPath, None, <<"H", ".", "p", "d", "f">>, PDF)

\* the processors of the four scenarios, in the order the script registers
\* them
ScriptInputs ==
    << FunctionInput("addMetadata"), ObjectInput("processResults", Some(Ctx1)),
       FunctionInput("enrichWithAPI"), FunctionInput("errorProcessor") >>

\* the scenario the script is in: it makes two registry calls per scenario,
\* the registration and the clear-all
ScriptScenario == (Len(regLog) + 1) \div 2

\* scenario k up to its await: setDocxPostProcessor(input), then
\* DocSuite.extract(testFilePath) up to its first suspension, from the
\* registry m and the registry calls log
ScriptRun(k, m, log, toolkit) ==
    /\ postProcessors' = PrivSetPostProcessor(m, DOCX, ScriptInputs[k])
    /\ regLog' = Append(log, LogEntry("set", None, {DOCX}, ScriptInputs[k]))
    /\ call' = [Begin(ScriptSample) EXCEPT !.pc = "pdf", !.extractor = "pdf"]
    /\ pdf' = [pdf EXCEPT ![1] =
                  PdfStart(ScriptPath,
                           [imageFormat |-> "native", fullPageImage |-> FALSE,
                            progressCallback |-> FALSE],
                           toolkit)]
    /\ UNCHANGED scratch

\* testPostProcessors up to the await of scenario 1
ScriptStart(toolkit) ==
    /\ regLog = << >> /\ call.pc = "idle"
    /\ ScriptRun(1, postProcessors, regLog, toolkit)

\* the await of a scenario resumes with the results: results[0] is read and
\* printed, clearAllPostProcessors, then the next scenario up to its await
\* (a rejected extract, or no results[0] to read, ends the script there)
ScriptResume(toolkit) ==
    /\ call.pc = "done" /\ call.outcome = "resolved"
    /\ Len(call.returned) >= 1
    /\ Len(regLog) % 2 = 1
    /\ IF ScriptScenario < Len(ScriptInputs)
       THEN ScriptRun(ScriptScenario + 1, MapClear(postProcessors),
                      Append(regLog, LogEntry("clearAll", None, {}, FunctionInput("none"))),
                      toolkit)
       ELSE /\ postProcessors' = MapClear(postProcessors)
            /\ regLog' = Append(regLog, LogEntry("clearAll", None, {}, FunctionInput("none")))
            /\ UNCHANGED <<call, pdf, scratch>>

(* ---------------------------- specifications --------------------------- *)

\* the registry calls a caller can make, while fewer than maxOps were made
Registry(maxOps) ==
    \/ \E input \in Inputs : Len(regLog) < maxOps /\ setDocxPostProcessor(input)
    \/ \E input \in Inputs : Len(regLog) < maxOps /\ setXlsxPostProcessor(input)
    \/ \E input \in Inputs : Len(regLog) < maxOps /\ setPptxPostProcessor(input)
    \/ \E input \in Inputs : Len(regLog) < maxOps /\ setPdfPostProcessor(input)
    \/ \E spelling \in Spellings, input \in Inputs :
          Len(regLog) < maxOps /\ setPostProcessor(spelling, input)
    \/ \E spelling \in Spellings : Len(regLog) < maxOps /\ clearPostProcessor(spelling)
    \/ Len(regLog) < maxOps /\ clearAllPostProcessors

\* the steps of an extract call through the office formats and the default
Office(samples) ==
    \/ \E s \in samples : ExtractDocx(s)
    \/ \E o \in DocxOutcomes : MammothSettle(o)
    \/ \E s \in samples, o \in XlsxOutcomes : ExtractXlsx(s, o)
    \/ \E s \in samples, o \in PptxOutcomes : ExtractPptx(s, o)
    \/ \E o \in PptxOutcomes : PptxSettle(o)
    \/ \E s \in samples, b \in Behaviours : ExtractUnsupported(s, b)
    \/ \E b \in Behaviours : ExtractResume(b)
    \/ ProcessorSettle

Init == InitCommon /\ call = CallIdle

\* one extract call on any sample, with at most MaxFacadeRegOps registry
\* operations at any point
Next ==
    \/ Registry(MaxFacadeRegOps)
    \/ Office(CallSamples)
    \/ \E s \in CallSamples, options \in PdfOptions, toolkit \in BOOLEAN :
          ExtractPdf(s, options, toolkit)
    \/ PdfStep(1, MaxFacadePages, {"00a1"})

Spec == Init /\ [][Next]_vars

\* one extract call on a file of any format (of a PDF, one whose page count
\* cannot be determined), with at most MaxRegOps registry operations at any
\* point
NextRegistry ==
    \/ Registry(MaxRegOps)
    \/ Office(RegistrySamples)
    \/ \E s \in RegistrySamples, options \in PdfOptions, toolkit \in BOOLEAN :
          ExtractPdf(s, options, toolkit)
    \/ \E info \in {NoReport, NoPagesLine} : PdfInfoSettle(1, TRUE, info)
    \/ PdfInfoSettle(1, FALSE, NoReport)

SpecRegistry == Init /\ [][NextRegistry]_vars

\* one direct extractPdf call
NextPdf ==
    \/ \E options \in PdfOptions, toolkit \in BOOLEAN : ExtractPdfCall(1, PdfPath, options, toolkit)
    \/ PdfStep(1, MaxPages, {"00a1"})

SpecPdf == Init /\ [][NextPdf]_vars

\* one call of one format extractor with nothing registered: an office
\* extractor reached through extract, or extractPdf called directly
NextExtractors ==
    \/ \E s \in RegistrySamples : pdf[1].pc = "idle" /\ ExtractDocx(s)
    \/ \E o \in DocxOutcomes : MammothSettle(o)
    \/ \E s \in RegistrySamples, o \in XlsxOutcomes : pdf[1].pc = "idle" /\ ExtractXlsx(s, o)
    \/ \E s \in RegistrySamples, o \in PptxOutcomes : pdf[1].pc = "idle" /\ ExtractPptx(s, o)
    \/ \E o \in PptxOutcomes : PptxSettle(o)
    \/ \E b \in Behaviours : ExtractResume(b)
    \/ \E options \in PdfOptions, toolkit \in BOOLEAN :
          call.pc = "idle" /\ ExtractPdfCall(1, PdfPath, options, toolkit)
    \/ PdfStep(1, MaxPages, {"00a1"})

SpecExtractors == Init /\ [][NextExtractors]_vars

\* the second path, of the longer PDF
LongPdfPath == <<"g", ".", "p", "d", "f">>

\* the two documents: invocation 1 extracts a one-page PDF, invocation 2 a
\* PDF of LongPages pages; each has one embedded image, on its last page,
\* and no text
PagesOf(i) == IF i = 1 THEN 1 ELSE LongPages
PathOf(i) == IF i = 1 THEN PdfPath ELSE LongPdfPath
ImagesOn(i, pageNum) == IF pageNum = PagesOf(i) THEN 1 ELSE 0
ImageBytes(i) == <<"bytes", ToString(i)>>

\* two extractPdf invocations in flight at once, without full-page
\* rendering, every tool and file-system call succeeding, the page loops
\* interleaved at every suspension
NextTwoPdf ==
    \/ \E i \in Invs, options \in {o \in PdfOptions : ~o.fullPageImage} :
          ExtractPdfCall(i, PathOf(i), options, TRUE)
    \/ \E i \in Invs : PdfInfoSettle(i, TRUE, PagesLine(PagesOf(i)))
    \/ \E i \in Invs : PdfToTextSettle(i, TRUE, <<" ">>, Boom)
    \/ \E i \in Invs, hex \in Hexes : PdfImagesMkdirSettle(i, TRUE, hex)
    \/ \E i \in Invs :
          PdfImagesSettle(i, TRUE, ImagesOn(i, pdf[i].pageNum),
                          [k \in 1..ImagesOn(i, pdf[i].pageNum) |-> ImageBytes(i)])
    \/ \E i \in Invs, files \in Listings({f.name : f \in scratch}) :
          PdfReaddirSettle(i, TRUE, files)
    \/ \E i \in Invs : PdfImageReadSettle(i, TRUE)
    \/ \E i \in Invs : PdfImageRmSettle(i, TRUE)

SpecTwoPdf == Init /\ [][NextTwoPdf]_vars

\* the post-processor part of the developer script, run once from an empty
\* registry on a PDF of at most MaxFacadePages pages (the lookup of these
\* extract calls, made under .pdf, finds no processor whose promise would
\* have to settle)
NextScript ==
    \/ \E toolkit \in BOOLEAN : ScriptStart(toolkit)
    \/ \E toolkit \in BOOLEAN : ScriptResume(toolkit)
    \/ \E b \in Behaviours : ExtractResume(b)
    \/ \E n \in 0..MaxFacadePages : PdfInfoSettle(1, TRUE, PagesLine(n))
    \/ PdfInfoSettle(1, FALSE, NoReport)
    \/ \E text \in PageTexts : PdfToTextSettle(1, TRUE, text, Boom)
    \/ \E e \in Failures : PdfToTextSettle(1, FALSE, << >>, e)
    \/ \E ok \in BOOLEAN : PdfImagesMkdirSettle(1, ok, "00a1")
    \/ \E ok \in BOOLEAN, n \in 0..MaxImages :
          \E bytes \in [1..n -> FileBytes] : PdfImagesSettle(1, ok, n, bytes)
    \/ \E files \in Listings({f.name : f \in scratch}) : PdfReaddirSettle(1, TRUE, files)
    \/ \E ok \in BOOLEAN : PdfImageReadSettle(1, ok)
    \/ \E ok \in BOOLEAN : PdfImageRmSettle(1, ok)

SpecScript == Init /\ [][NextScript]_vars

(* ------------------------------ properties ----------------------------- *)

Finished == call.pc = "done"
Resolved == Finished /\ call.outcome = "resolved"

\* C1 as stated: the sequence returned by extract has at least one element,
\* whatever the extractor's outcome and whatever a registered processor
\* returned.
C1_AlwaysNonEmpty == Resolved => Len(call.returned) >= 1

\* C1: when extract resolves and the lookup found no processor under the
\* resolved extension, the returned sequence has at least one element unless
\* the library parsed a workbook or deck with zero sheets or slides, and in
\* that case it is the empty sequence; with a processor found, a processor
\* that returns normally decides the returned sequence, the empty one
\* included.
C1_NonEmptyWithoutProcessor ==
    /\ (Resolved /\ call.config = None /\ call.units # Some(0)) => Len(call.returned) >= 1
    /\ (Resolved /\ call.config = None /\ call.units = Some(0)) => call.returned = << >>
    /\ (Resolved /\ call.procEnd = "returned" /\ Get(call.config).processor = "custom")
          => call.returned = << >>

\* a blank PDF page and no processor: the page's one empty text result
C1_Witness ==
    /\ Resolved /\ call.config = None /\ call.extractor = "pdf"
    /\ pdf[1].pageCount = 1
    /\ Len(call.returned) = 1
    /\ call.returned[1].type = "text"
    /\ call.returned[1].contents = Some(<< >>)

\* C2: extract never rejects: every finished call has resolved with a
\* sequence, whatever threw or rejected on its way.
C2_NeverRejects == Finished => call.outcome = "resolved"

\* C3: with the PDF toolkit absent from the host, creating the handle
\* included, extractPdf and extract on a .pdf file resolve, every result
\* being an error result of absent type.
C3_AbsentToolkitResolves ==
    /\ (pdf[1].pc = "done" /\ ~pdf[1].toolkit)
          => /\ pdf[1].outcome = "resolved"
             /\ Len(pdf[1].returned) >= 1
             /\ \A k \in 1..Len(pdf[1].returned) :
                   pdf[1].returned[k].type = "null" /\ IsSome(pdf[1].returned[k].error)
    /\ (Finished /\ call.extractor = "pdf" /\ ~pdf[1].toolkit)
          => call.outcome = "resolved"


\* C4: in extractPdf with a parsed page count N >= 1, whatever fails while a
\* page is processed, the returned sequence has at least one result for
\* every page 1..N.
C4_EveryPageHasAResult ==
    (pdf[1].pc = "done" /\ pdf[1].outcome = "resolved" /\ pdf[1].pageCount >= 1)
       => \A k \in 1..pdf[1].pageCount :
             \E j \in 1..Len(pdf[1].returned) : pdf[1].returned[j].page = k

\* C5: when the registered processor throws or rejects, extract returns a
\* sequence as long as the extractor's, whose first element's error is
\* "Post-processor error: <message>"; the empty sequence comes back empty.
C5_FailureFallback ==
    (Finished /\ call.procEnd = "failed")
       => /\ Len(call.returned) = Len(call.extracted)
          /\ call.extracted # << >>
                => call.returned[1].error =
                      Some(<<"Post-processor error: ">> \o call.thrown.message)

\* C6: on post-processor failure, apart from the error field of the first
\* element, every field of every element returned equals what the extractor
\* produced, whatever the processor did to its argument.
C6_OutputDiscarded ==
    (Finished /\ call.procEnd = "failed")
       => /\ DOMAIN call.returned = DOMAIN call.extracted
          /\ \A k \in DOMAIN call.returned :
                call.returned[k] =
                   IF k = 1 THEN [call.extracted[k] EXCEPT !.error = call.returned[k].error]
                   ELSE call.extracted[k]

Supported == {DOCX, XLSX, XLS, PPTX, PDF}

\* what a history of setter and clear calls leaves registered for the
\* extension k: the most recent registration for k, unless a clear of k or a
\* clear-all came after it
RECURSIVE Registered(_, _)
Registered(log, k) ==
    IF log = << >> THEN None
    ELSE LET e == log[Len(log)]
         IN  IF e.op = "clearAll" THEN None
             ELSE IF k \in e.keys
                  THEN IF e.op = "set"
                       THEN Some([processor |-> e.input.handler, context |-> e.input.context])
                       ELSE None
                  ELSE Registered(SubSeq(log, 1, Len(log) - 1), k)

\* the registry calls made before the lookup of the current extract call
LogAtLookup == SubSeq(regLog, 1, call.lookupAt)

\* C7: for a resolved extension outside the five supported ones, extract
\* calls no extractor and builds one result of absent type, page 1, the
\* path's base name and an error naming the extension; the lookup is made
\* under that extension, and with nothing registered for it the call
\* returns that one result.
C7_Unsupported ==
    (call.pc # "idle" /\ call.ext \notin Supported)
       => /\ call.extractor = "none"
          /\ Len(call.extracted) = 1
          /\ call.extracted[1].type = "null"
          /\ call.extracted[1].page = 1
          /\ call.extracted[1].fileName = call.base
          /\ call.extracted[1].contents = None
          /\ IsSome(call.extracted[1].error)
          /\ Contains(Get(call.extracted[1].error), call.ext \o <<"\"">>)
          /\ call.looked
          /\ call.config = Registered(LogAtLookup, call.ext)
          /\ call.config = None => (Resolved /\ call.returned = call.extracted)

\* a file without extension, nothing registered
C7_Witness ==
    /\ Resolved /\ call.ext = << >> /\ call.filePath = NoExtPath
    /\ call.config = None
    /\ Len(call.returned) = 1 /\ call.returned[1].type = "null"

\* C8: an options.extension override is lowercased and given a leading dot,
\* and that value decides both the dispatch and the lookup key: "pdf" and
\* ".PDF" both reach the PDF extractor and the key ".pdf".
C8_OverrideNormalized ==
    (call.pc # "idle" /\ IsSome(call.extension) /\ Get(call.extension) # << >>)
       => /\ call.ext = call.means
          /\ call.means = PDF => call.extractor = "pdf"

\* the entry the registry holds for k, if any
EntryOf(k) == IF k \in DOMAIN postProcessors THEN Some(postProcessors[k]) ELSE None

\* C9: the registry holds at most one entry per extension, the one of the
\* most recent registration not followed by a clear of it or a clear-all,
\* and an extract call on that extension applies exactly that processor with
\* its context.
C9_LastRegistrationWins ==
    /\ DOMAIN postProcessors \subseteq Supported \cup {TXT}
    /\ \A k \in Supported \cup {TXT} : EntryOf(k) = Registered(regLog, k)
    /\ call.looked => call.config = Registered(LogAtLookup, call.ext)
    /\ (Finished /\ IsSome(call.config))
          => LET e == Get(call.config)
             IN  /\ e.processor = "addMetadata"
                       => call.returned = MapTag(call.extracted, <<"[PROCESSED] ">>)
                 /\ e.processor = "processResults"
                       => call.returned =
                             MapTag(call.extracted, Get(e.context).prefix \o <<": ">>)

\* two registrations for the extension of the call, the second one applied
C9_Witness ==
    /\ Resolved /\ call.lookupAt = 2 /\ Len(regLog) = 2
    /\ regLog[1].op = "set" /\ regLog[2].op = "set"
    /\ call.ext \in regLog[1].keys \cap regLog[2].keys
    /\ regLog[1].input = ObjectInput("processResults", Some(Ctx1))
    /\ regLog[2].input = ObjectInput("processResults", Some(Ctx2))
    /\ call.procEnd = "returned"
    /\ call.returned # call.extracted

\* C10: after clearAllPostProcessors, whatever was registered before it, and
\* until the next registration, extract on any extension calls no processor
\* and returns exactly what the extractor (or the unsupported-extension
\* branch) produced.
C10_ClearAllBypasses ==
    (call.looked /\ \E j \in 1..call.lookupAt :
                       /\ regLog[j].op = "clearAll"
                       /\ \A i \in (j + 1)..call.lookupAt : regLog[i].op # "set")
       => /\ call.config = None
          /\ call.procEnd = "none"
          /\ Resolved
          /\ call.returned = call.extracted

\* a registration for the extension of the call, then clear-all, then the call
C10_Witness ==
    /\ Resolved /\ call.lookupAt = 2
    /\ regLog[1].op = "set" /\ call.ext \in regLog[1].keys
    /\ regLog[2].op = "clearAll"
    /\ call.returned = call.extracted /\ Len(call.returned) >= 1

\* C11: setPostProcessor and clearPostProcessor bring every spelling of an
\* extension (no leading dot, upper case) to the same key: the registry
\* never holds a key other than a lowercase dotted one, a processor set
\* under any spelling is the entry of that key and is the one an extract
\* call on that extension finds, and a clear under any spelling removes it.
C11_SpellingsNormalized ==
    /\ \A k \in DOMAIN postProcessors : k \in Supported \cup {TXT}
    /\ regLog # << >> =>
          LET e == regLog[Len(regLog)]
          IN  IsSome(e.raw) =>
                 \A k \in e.keys :
                    EntryOf(k) = IF e.op = "set"
                                 THEN Some([processor |-> e.input.handler,
                                            context |-> e.input.context])
                                 ELSE None
    /\ (call.looked /\ call.lookupAt >= 1 /\ IsSome(LogAtLookup[call.lookupAt].raw)
          /\ call.ext \in LogAtLookup[call.lookupAt].keys)
          => LET e == LogAtLookup[call.lookupAt]
             IN  call.config = IF e.op = "set"
                               THEN Some([processor |-> e.input.handler,
                                          context |-> e.input.context])
                               ELSE None

\* set under "docx", applied to a .docx extraction, then cleared under ".DOCX"
C11_Witness ==
    /\ Len(regLog) = 2
    /\ regLog[1].op = "set" /\ regLog[1].raw = Some(<<"d", "o", "c", "x">>)
    /\ regLog[2].op = "clear" /\ regLog[2].raw = Some(<<".", "D", "O", "C", "X">>)
    /\ Resolved /\ call.ext = DOCX /\ call.lookupAt = 1
    /\ call.procEnd = "returned"
    /\ DOCX \notin DOMAIN postProcessors

\* an extractPdf invocation that has returned a sequence
PdfResolved(i) == pdf[i].pc = "done" /\ pdf[i].outcome = "resolved"

\* the invocation did a step of this kind while on page k
PdfDid(i, kind, k) ==
    \E j \in DOMAIN pdf[i].events : pdf[i].events[j].kind = kind /\ pdf[i].events[j].page = k

\* the top-level catch ended the invocation
PdfAborted(i) == \E j \in DOMAIN pdf[i].events : pdf[i].events[j].kind = "abort"

\* the positions of the full-page image results of page k in r
FullPageImages(r, k) ==
    { j \in DOMAIN r : r[j].page = k /\ r[j].type = "image" /\ r[j].isFullPage = Some(TRUE) }

\* C12 as stated: with fullPageImage and N >= 1 pages, every page 1..N
\* has a result of type image with isFullPage in the returned sequence.
C12_EveryPageHasFullPageImage ==
    (PdfResolved(1) /\ pdf[1].fullPageImage /\ pdf[1].pageCount >= 1)
       => \A k \in 1..pdf[1].pageCount : FullPageImages(pdf[1].returned, k) # {}

\* C12: with fullPageImage and N >= 1 pages, the returned sequence has
\* exactly one full-page image result for each page whose render file was
\* re-encoded and whose later stages ran to the end of the page, provided
\* the top-level catch did not end the invocation; it has none for any
\* other page.
C12_FullPageImageWhenRendered ==
    (PdfResolved(1) /\ pdf[1].fullPageImage /\ pdf[1].pageCount >= 1)
       => \A k \in 1..pdf[1].pageCount :
             Cardinality(FullPageImages(pdf[1].returned, k)) =
                IF PdfDid(1, "render", k) /\ PdfDid(1, "finish", k) /\ ~PdfAborted(1)
                THEN 1 ELSE 0

\* two pages, each rendered, each with its full-page image and a text result
C12_Witness ==
    /\ PdfResolved(1) /\ pdf[1].fullPageImage /\ pdf[1].pageCount = 2
    /\ \A k \in 1..2 :
          /\ FullPageImages(pdf[1].returned, k) # {}
          /\ \E j \in DOMAIN pdf[1].returned :
                pdf[1].returned[j].page = k /\ pdf[1].returned[j].type = "text"

\* the report gives no page count: it is no text, it has no Pages line, or
\* its Pages line says 0
NoPageCount(info) == ~info.isString \/ info.pages = None \/ info.pages = Some(<<"0">>)

\* C13: when the metadata report yields no page count, extractPdf returns
\* exactly one result of absent type, page 1, with the error "Unable to
\* determine PDF page count", and nothing else of the pipeline has run: no
\* progress event, no step of any page, no scratch file.
C13_NoPageCount ==
    (pdf[1].pc = "done" /\ IsSome(pdf[1].report) /\ NoPageCount(Get(pdf[1].report)))
       => /\ pdf[1].outcome = "resolved"
          /\ pdf[1].returned =
                << [type |-> "null", fileName |-> <<"e", ".", "P", "d", "f">>, page |-> 1,
                    contents |-> None,
                    error |-> Some(<<"Unable to determine PDF page count">>),
                    isFullPage |-> None] >>
          /\ pdf[1].progress = << >>
          /\ pdf[1].events = << >>
          /\ scratch = {}

\* a report saying "Pages: 0", for a call with a progress callback and
\* full-page rendering asked for
C13_Witness ==
    /\ pdf[1].pc = "done" /\ pdf[1].report = Some(PagesLine(0))
    /\ pdf[1].progressCallback /\ pdf[1].fullPageImage
    /\ Len(pdf[1].returned) = 1 /\ pdf[1].progress = << >>

\* the results of page k in r, in order
RECURSIVE OfPage(_, _)
OfPage(r, k) ==
    IF r = << >> THEN << >>
    ELSE (IF Head(r).page = k THEN <<Head(r)>> ELSE << >>) \o OfPage(Tail(r), k)

\* C14: for a page processed without full-page rendering, whose text is
\* only whitespace, whose embedded-image stage gave no non-empty file and
\* where no stage threw, extractPdf emits exactly one result: type text
\* with the empty string as contents.
C14_BlankPage ==
    (PdfResolved(1) /\ ~pdf[1].fullPageImage)
       => \A k \in 1..pdf[1].pageCount :
             (PdfDid(1, "noText", k) /\ PdfDid(1, "finish", k) /\ ~PdfDid(1, "image", k))
                => OfPage(pdf[1].returned, k) =
                      << [type |-> "text", fileName |-> <<"e", ".", "P", "d", "f">>,
                          page |-> k, contents |-> Some(<< >>), error |-> None,
                          isFullPage |-> None] >>

\* a blank second page whose image stage left one zero-length file
C14_Witness ==
    /\ PdfResolved(1) /\ ~pdf[1].fullPageImage /\ pdf[1].pageCount = 2
    /\ PdfDid(1, "noText", 2) /\ PdfDid(1, "empty", 2) /\ PdfDid(1, "finish", 2)
    /\ Len(OfPage(pdf[1].returned, 2)) = 1
    /\ OfPage(pdf[1].returned, 2)[1].contents = Some(<< >>)

\* the page values of r never decrease along r
Ascending(r) == \A a, b \in DOMAIN r : a < b => r[a].page <= r[b].page

\* the pages the loop of an invocation has begun, in the order it began them
PagesBegun(i) ==
    LET begun == SelectSeq(pdf[i].events, LAMBDA e : e.kind = "page")
    IN  [j \in DOMAIN begun |-> begun[j].page]

\* C15: within one extractor call the units are taken in ascending 1-based
\* order and their results appended in that order: the page loop begins
\* pages 1, 2, ... in turn, and the page values never decrease along the
\* sequence extractPdf is building or has returned, nor along the sequence
\* of extractXlsx and extractPptx.
C15_AscendingOrder ==
    /\ PagesBegun(1) = [j \in 1..Len(PagesBegun(1)) |-> j]
    /\ Ascending(pdf[1].results)
    /\ Ascending(pdf[1].returned)
    /\ call.extractor \in {"xlsx", "pptx"} => Ascending(call.extracted)

\* a two-page PDF returned with results of both pages, more than one of them
\* for page 1
C15_Witness ==
    /\ PdfResolved(1) /\ pdf[1].pageCount = 2
    /\ Len(OfPage(pdf[1].returned, 1)) >= 2
    /\ Len(OfPage(pdf[1].returned, 2)) >= 1

\* the extractor of the call has returned
Extracted == call.pc \in {"resume", "processing", "done"}

\* the library parsed the workbook or deck and converted every unit of it
UnitsConverted ==
    IsSome(call.units) /\ call.failAt \notin 1..Get(call.units)

\* the text of the slide at position i of the deck: its fragments f1 .. fi,
\* one per line
RECURSIVE SlideLines(_)
SlideLines(i) ==
    IF i = 1 THEN <<"f", "1">> ELSE SlideLines(i - 1) \o <<"\n", "f", ToString(i)>>

\* C16: on success, extractXlsx on a workbook of N sheets returns N results
\* of type csv with pages 1..N in sheet order, and extractPptx on a deck of
\* M slides returns M results of type text with pages 1..M in deck order,
\* each with that slide's fragments joined by newline.
C16_OneResultPerUnit ==
    /\ (Extracted /\ call.extractor = "xlsx" /\ UnitsConverted)
          => call.extracted =
                [i \in 1..Get(call.units) |->
                   [type |-> "csv", fileName |-> call.base, page |-> i,
                    contents |-> Some(<<"csv", ToString(i - 1)>>),
                    error |-> None, isFullPage |-> None]]
    /\ (Extracted /\ call.extractor = "pptx" /\ UnitsConverted)
          => call.extracted =
                [i \in 1..Get(call.units) |->
                   [type |-> "text", fileName |-> call.base, page |-> i,
                    contents |-> Some(SlideLines(i)),
                    error |-> None, isFullPage |-> None]]

\* a workbook of two sheets, both converted
C16_Witness ==
    /\ Extracted /\ call.extractor = "xlsx" /\ call.units = Some(2) /\ call.failAt = 0
    /\ Len(call.extracted) = 2
    /\ call.extracted[2].page = 2 /\ call.extracted[2].type = "csv"

\* the shape of one result: type null exactly with an error, an error
\* exactly without contents, and no type outside the four
WellFormed(r) ==
    /\ r.type \in {"null", "text", "csv", "image"}
    /\ (r.type = "null") <=> IsSome(r.error)
    /\ IsSome(r.error) <=> ~IsSome(r.contents)

\* the sequences direct extractor calls have returned so far
ReturnedSequences ==
    (IF Extracted /\ call.extractor \in {"docx", "xlsx", "pptx"}
     THEN {call.extracted} ELSE {})
    \cup {pdf[i].returned : i \in {j \in Invs : PdfResolved(j)}}

\* C19: in every sequence returned by a direct call of extractDocx,
\* extractXlsx, extractPptx or extractPdf, each result has type null if and
\* only if it has an error, and an error if and only if it has no contents;
\* the other results have type text, csv or image, contents and no error.
C19_TypeErrorContents ==
    \A r \in ReturnedSequences : \A k \in DOMAIN r : WellFormed(r[k])

\* extractPdf returned a failed render, a text and an embedded image of one
\* page side by side
C19_Witness ==
    /\ PdfResolved(1)
    /\ \E a, b, c \in DOMAIN pdf[1].returned :
          /\ pdf[1].returned[a].type = "null"
          /\ pdf[1].returned[b].type = "text"
          /\ pdf[1].returned[c].type = "image"
          /\ pdf[1].returned[a].page = pdf[1].returned[c].page

\* C20: extractXlsx and extractPptx return no partial result set: when
\* opening the file fails or any one sheet or slide cannot be converted, the
\* returned sequence is exactly one result with type null, page 1 and an
\* error, and holds no result of a sheet or slide converted before the
\* failure.
C20_NoPartialResults ==
    (Extracted /\ call.extractor \in {"xlsx", "pptx"} /\ ~UnitsConverted)
       => /\ Len(call.extracted) = 1
          /\ call.extracted[1].type = "null"
          /\ call.extracted[1].page = 1
          /\ call.extracted[1].fileName = call.base
          /\ IsSome(call.extracted[1].error)
          /\ ~IsSome(call.extracted[1].contents)

\* extractXlsx returned after the second of two sheets could not be
\* serialized, the first one having been converted
C20_Witness ==
    /\ Extracted /\ call.extractor = "xlsx"
    /\ call.units = Some(2) /\ call.failAt = 2
    /\ Len(call.extracted) = 1 /\ call.extracted[1].type = "null"

\* the steps that interpret the bytes read from a scratch file: the
\* re-encoding (done or failed), the zero-length skip, the base64 result
Interpretations == {"render", "renderFailed", "empty", "image"}

\* C17: in extractPdf the delete of a scratch file comes directly after its
\* read and before its bytes are interpreted: every interpretation of a
\* file follows its delete, which follows its read, nothing comes between a
\* read and the delete but the delete's own failure, and a deleted file is
\* gone from the scratch directory whatever the interpretation then does.
C17_DeleteRightAfterRead ==
    LET ev == pdf[1].events
    IN  /\ \A j \in DOMAIN ev :
              ev[j].kind \in Interpretations
                 => /\ j >= 3
                    /\ ev[j - 1] = [ev[j] EXCEPT !.kind = "rm"]
                    /\ ev[j - 2] = [ev[j] EXCEPT !.kind = "read"]
        /\ \A j \in DOMAIN ev :
              ev[j].kind = "read"
                 => IF j = Len(ev) THEN pdf[1].pc \in {"fpRm", "imgRm"}
                    ELSE \/ ev[j + 1] = [ev[j] EXCEPT !.kind = "rm"]
                         \/ ev[j + 1].kind \in {"cairoCatch", "pageCatch"}
        /\ \A j \in DOMAIN ev : ev[j].kind = "rm" => ~Exists(scratch, ev[j].file)

\* on one page: a render file read, deleted, and failing to re-encode, and a
\* zero-length embedded image read, deleted and skipped
C17_Witness ==
    /\ PdfResolved(1)
    /\ PdfDid(1, "renderFailed", 1)
    /\ \E j \in DOMAIN pdf[1].events :
          /\ pdf[1].events[j].kind = "empty" /\ pdf[1].events[j].page = 1
          /\ startsWith(pdf[1].events[j].file, <<"pdf-images-">>)
    /\ scratch = {}

\* the elements of a sequence
Range(q) == { q[j] : j \in DOMAIN q }

\* invocation i lists, reads, deletes and emits only what it wrote itself:
\* the files it has listed by prefix and those it has read, deleted or
\* turned into a result are among the files its own tool calls wrote, and
\* the bytes it holds are those of its own document
OwnFilesOnly(i) ==
    /\ Range(pdf[i].imageFiles) \subseteq pdf[i].wrote
    /\ \A j \in DOMAIN pdf[i].events :
          pdf[i].events[j].kind \in {"read", "rm", "image", "empty"}
             => pdf[i].events[j].file \in pdf[i].wrote
    /\ pdf[i].pc = "imgRm" => pdf[i].buffer = ImageBytes(i)

C21_RenderFailureKeepsPage ==
    LET ev == pdf[1].events
        failed(k) ==
            [type |-> "null", fileName |-> <<"e", ".", "P", "d", "f">>, page |-> k,
             contents |-> None,
             error |-> Some(<<"pdfToCairo failed for page ", ToString(k),
                              ". The PDF may be incompatible or the environment may have an issue with the Poppler binary.">>),
             isFullPage |-> None]
    IN  /\ \A j \in DOMAIN ev :
              ev[j].kind = "cairoCatch"
                 => /\ j = Len(ev)
                         => /\ pdf[1].pc = "text" /\ pdf[1].pageNum = ev[j].page
                            /\ pdf[1].pageResults = << failed(ev[j].page) >>
                    /\ j < Len(ev)
                         => /\ ev[j + 1].page = ev[j].page
                            /\ ev[j + 1].kind \in {"text", "noText", "pageCatch"}
                    /\ (j + 1 = Len(ev) /\ ev[j + 1].kind \in {"text", "noText"})
                         => /\ pdf[1].pc \in {"imgMkdir", "images", "readdir", "imgRead"}
                            /\ pdf[1].pageNum = ev[j].page
                            /\ Head(pdf[1].pageResults) = failed(ev[j].page)
        /\ \A k \in 1..pdf[1].pageCount :
              (PdfDid(1, "cairoCatch", k) /\ PdfDid(1, "finish", k))
                 => LET r == OfPage(pdf[1].results, k)
                    IN  /\ Len(r) >= 1 /\ r[1] = failed(k)
                        /\ \A m \in 2..Len(r) : r[m].type \in {"text", "image"}
                        /\ PdfDid(1, "text", k) <=> (Len(r) >= 2 /\ r[2].type = "text")
                        /\ PdfDid(1, "image", k) <=> (r[Len(r)].type = "image")

\* the render of page 1 failed, and the page was returned with the render
\* error, then its text, then an embedded image
C21_Witness ==
    /\ PdfResolved(1) /\ ~PdfAborted(1)
    /\ PdfDid(1, "cairoCatch", 1) /\ PdfDid(1, "finish", 1)
    /\ Len(OfPage(pdf[1].returned, 1)) = 3
    /\ OfPage(pdf[1].returned, 1)[1].type = "null"
    /\ OfPage(pdf[1].returned, 1)[2].type = "text"
    /\ OfPage(pdf[1].returned, 1)[3].type = "image"

\* C22: with fullPageImage, when the render tool left a zero-byte output
\* file for a page, the full-page stage has recorded one type-null result
\* with an error for that page once it is through with the file.
C22_ZeroByteRenderIsFailure ==
    LET ev == pdf[1].events
    IN  (/\ ev # << >>
         /\ ev[Len(ev)].kind = "empty"
         /\ startsWith(ev[Len(ev)].file, <<"cairo-output-">>))
           => \E m \in DOMAIN pdf[1].pageResults :
                 /\ pdf[1].pageResults[m].type = "null"
                 /\ pdf[1].pageResults[m].page = ev[Len(ev)].page
                 /\ IsSome(pdf[1].pageResults[m].error)

\* C23: with a progress callback and a page count N >= 1, extractPdf has
\* called it exactly once per page by the time it returns, with currentPage
\* 1..N in ascending order and totalPages = N, whatever failed on earlier
\* pages.
C23_ProgressOncePerPage ==
    (PdfResolved(1) /\ pdf[1].progressCallback /\ pdf[1].pageCount >= 1)
       => pdf[1].progress =
             [k \in 1..pdf[1].pageCount |->
                [currentPage |-> k, totalPages |-> pdf[1].pageCount]]

\* C24: clearPostProcessor(e) removes the entry under the normalized e when
\* there is one and changes no other entry (nothing at all when there is
\* none); after setXlsxPostProcessor(p) and clearPostProcessor(".xlsx") the
\* registry still holds p under .xls, and an extract call on an .xls file
\* made then applies p.
C24_ClearRemovesOneEntry ==
    /\ [][ (Len(regLog') = Len(regLog) + 1 /\ regLog'[Len(regLog')].op = "clear")
              => \E k \in regLog'[Len(regLog')].keys :
                    /\ regLog'[Len(regLog')].keys = {k}
                    /\ DOMAIN postProcessors' = (DOMAIN postProcessors) \ {k}
                    /\ \A x \in DOMAIN postProcessors' : postProcessors'[x] = postProcessors[x]
          ]_vars
    /\ [] ( ( /\ Len(regLog) = 2
              /\ regLog[1].op = "set" /\ regLog[1].keys = {XLSX, XLS}
              /\ regLog[2].op = "clear" /\ regLog[2].keys = {XLSX} )
            => /\ DOMAIN postProcessors = {XLS}
               /\ postProcessors[XLS] = [processor |-> regLog[1].input.handler,
                                         context |-> regLog[1].input.context]
               /\ (call.looked /\ call.lookupAt = 2 /\ call.ext = XLS)
                     => /\ call.config = Some(postProcessors[XLS])
                        /\ call.pc = "processing" \/ call.procEnd # "none" )

\* setXlsxPostProcessor(addMetadata), clearPostProcessor(".xlsx"), then an
\* extract of c.xls whose sheets came back tagged by the processor
C24_Witness ==
    /\ Resolved /\ call.ext = XLS /\ call.lookupAt = 2 /\ Len(regLog) = 2
    /\ regLog[1].op = "set" /\ regLog[1].keys = {XLSX, XLS}
    /\ regLog[1].input = FunctionInput("addMetadata")
    /\ regLog[2].op = "clear" /\ regLog[2].raw = Some(XLSX)
    /\ call.procEnd = "returned"
    /\ Len(call.extracted) = 2
    /\ call.returned = MapTag(call.extracted, <<"[PROCESSED] ">>)
    /\ call.returned # call.extracted

\* C25 as stated: the processor an extract call applies is the entry the
\* registry held for the resolved extension at the moment the extractor
\* completed.
C25_EntryAtExtractionEnd ==
    call.looked
       => call.config = Registered(SubSeq(regLog, 1, call.extractedAt), call.ext)

\* C25: the registry is looked up once per extract call, after the
\* extractor has returned, when extract resumes from its await: the entry
\* found then for the resolved extension is the one applied, whatever was
\* set or cleared while the call was in flight before that, and no set or
\* clear made after the lookup changes the entry the call uses or, once the
\* call has returned, its result.
C25_LookupOnceAfterExtraction ==
    /\ [] ( call.looked
              => /\ call.pc \in {"processing", "done"}
                 /\ call.extractedAt <= call.lookupAt
                 /\ call.config = Registered(LogAtLookup, call.ext) )
    /\ [][ call.looked
              => /\ call'.looked
                 /\ call'.lookupAt = call.lookupAt
                 /\ call'.config = call.config ]_vars
    /\ [][ Finished => call' = call ]_vars

\* an extract call whose extractor returned with nothing registered, a
\* processor set for its extension before the call resumed, that processor
\* applied, and a clear-all after the call returned
C25_Witness ==
    /\ Resolved /\ call.extractedAt = 0 /\ call.lookupAt = 1 /\ Len(regLog) = 2
    /\ regLog[1].op = "set" /\ call.ext \in regLog[1].keys
    /\ regLog[2].op = "clearAll"
    /\ postProcessors = EmptyMap
    /\ call.config = Some([processor |-> "addMetadata", context |-> None])
    /\ call.procEnd = "returned"
    /\ call.returned = MapTag(call.extracted, <<"[PROCESSED] ">>)
    /\ call.returned # call.extracted

\* C26: in the developer script each scenario's extract call applies the
\* processor the scenario registered; in scenario 4 the first result
\* returned carries the error "Post-processor error: Something went wrong
\* in the processor"; the registry is empty before the first scenario and
\* after the last.
C26_ScriptAppliesEachProcessor ==
    /\ Resolved
          => /\ IsSome(call.config)
             /\ Get(call.config).processor = ScriptInputs[ScriptScenario].handler
    /\ (Resolved /\ ScriptScenario = 4)
          => /\ Len(call.returned) >= 1
             /\ call.returned[1].error =
                   Some(<<"Post-processor error: ", "Something went wrong in the processor">>)
    /\ Len(regLog) \in {0, 2 * Len(ScriptInputs)} => postProcessors = EmptyMap

\* C27: when an extractPdf invocation has returned, none of the scratch
\* files the tools wrote for it is left in the scratch directory, whatever
\* failed on the way.
C27_NoScratchLeftBehind ==
    pdf[1].pc = "done" => \A f \in scratch : f.name \notin pdf[1].wrote

====
